---- MODULE Spec2Model ----
(***************************************************************************)
(* White-noise pipeline of the repository.                                 *)
(*                                                                         *)
(* Two programs are modelled, one per behaviour (Init chooses which runs): *)
(*   "White noise.py"            the menu-driven mini terminal (main)      *)
(*   "White noise generator.py"  the straight-line script                  *)
(*                                                                         *)
(* Real numbers are exact rationals [n |-> numerator, d |-> denominator],  *)
(* d > 0; float32/float64 rounding of the interpreter is not modelled.     *)
(* Uncaught Python exceptions end the process: pc = "crashed", error holds *)
(* the exception type.                                                     *)
(***************************************************************************)
EXTENDS Integers, Sequences, FiniteSets, TLC

VARIABLES
    program,         \* which of the two programs this run executes
    pc,              \* control position of the running program
    choice,          \* last string read at the menu prompt
    current_buffer,  \* main: current_buffer ([some |-> FALSE] models None)
    current_sr,      \* main: current_sr
    gen_sr,          \* sample_rate argument of the generate_white_noise call
                     \* that returned the array held in current_buffer
    total_samples,   \* script: total_samples (length of white_noise)
    disk,            \* the file at "white_noise.wav" in the working directory
    stream,          \* the audio device's output stream
    call,            \* the library/core call made by the last step, if any
    msg,             \* tag of the last line printed
    error            \* exception type that ended the process, or "none"

vars == <<program, pc, choice, current_buffer, current_sr, gen_sr,
          total_samples, disk, stream, call, msg, error>>

----------------------------------------------------------------------------
(* Bounds of the model. *)

\* Largest buffer (in samples) whose samples are enumerated.
MaxSamples == 2

----------------------------------------------------------------------------
(* Rationals and Python's numeric conversions. *)

Rat(n, d) == [n |-> n, d |-> d]

\* Faulty variant of int_trunc: rounds a positive value up (math.ceil).
int_trunc_up(n, d) == IF n >= 0 THEN (n + d - 1) \div d ELSE -((-n) \div d)

\* int(x) for a float x = n/d: truncation toward zero.
int_trunc(n, d) == IF n >= 0 THEN n \div d ELSE -((-n) \div d)

\* floor(n/d), d > 0.
Floor(n, d) == n \div d

\* round-half-away-from-zero of n/d, d > 0 (nearest integer).
RoundNearest(n, d) ==
    IF n >= 0 THEN (2 * n + d) \div (2 * d) ELSE -((2 * (-n) + d) \div (2 * d))

Clamp(x, lo, hi) == IF x < lo THEN lo ELSE IF x > hi THEN hi ELSE x

\* Strings the user may type at the three prompts of menu option 2.
DurInputs == {"", "0", "0.5", "1", "-1", "abc"}
SrInputs  == {"", "2", "3", "-1", "2.0"}
AmpInputs == {"", "1", "x"}

\* input(...).strip() or default
or_default(s, default) == IF s = "" THEN default ELSE s

\* float(s): the value in tenths, or ValueError.
float_(s) ==
    CASE s = "2.0" -> [ok |-> TRUE,  v |-> Rat(20, 10)]
      [] s = "0"   -> [ok |-> TRUE,  v |-> Rat(0, 10)]
      [] s = "0.5" -> [ok |-> TRUE,  v |-> Rat(5, 10)]
      [] s = "0.2" -> [ok |-> TRUE,  v |-> Rat(2, 10)]
      [] s = "1"   -> [ok |-> TRUE,  v |-> Rat(10, 10)]
      [] s = "-1"  -> [ok |-> TRUE,  v |-> Rat(-10, 10)]
      [] OTHER     -> [ok |-> FALSE, v |-> Rat(0, 10)]

\* int(s): only integer literals parse; "2.0" raises ValueError.
int_(s) ==
    CASE s = "48000" -> [ok |-> TRUE,  v |-> 48000]
      [] s = "2"     -> [ok |-> TRUE,  v |-> 2]
      [] s = "3"     -> [ok |-> TRUE,  v |-> 3]
      [] s = "-1"    -> [ok |-> TRUE,  v |-> -1]
      [] OTHER       -> [ok |-> FALSE, v |-> 0]

----------------------------------------------------------------------------
(* generate_white_noise *)

\* Values np.random.normal(0, 1) may draw (quarters): -1.5 and 1.25.
NoiseValues == {Rat(-6, 4), Rat(5, 4)}

\* n_samples = int(duration_sec * sample_rate)
n_samples(duration_sec, sample_rate) ==
    int_trunc(duration_sec.n * sample_rate, duration_sec.d)

\* noise *= amplitude, elementwise
scale(noise, amplitude) ==
    [i \in 1..Len(noise) |->
        Rat(noise[i].n * amplitude.n, noise[i].d * amplitude.d)]

None == [some |-> FALSE, data |-> <<>>]
Some(data) == [some |-> TRUE, data |-> data]

\* generate_white_noise(duration_sec, sample_rate, amplitude) with the draws z
\* of np.random.normal: a negative size raises ValueError inside numpy,
\* anything else (zero included) returns an array of n_samples values.
generate_white_noise(duration_sec, sample_rate, amplitude, z) ==
    IF n_samples(duration_sec, sample_rate) < 0
    THEN [raised |-> "ValueError", noise |-> <<>>]
    ELSE [raised |-> "none", noise |-> scale(z, amplitude)]

----------------------------------------------------------------------------
(* save_wav and scipy.io.wavfile.write *)

\* max_int16 = np.iinfo(np.int16).max
max_int16 == 32767

\* (buffer * max_int16).clip(-max_int16, max_int16).astype(np.int16) for one
\* sample x: the product is clipped as a float, then astype truncates toward
\* zero.
to_int16(x) ==
    IF x.n * max_int16 > max_int16 * x.d THEN max_int16
    ELSE IF x.n * max_int16 < (-max_int16) * x.d THEN -max_int16
    ELSE int_trunc(x.n * max_int16, x.d)

quantize(buffer) == [i \in 1..Len(buffer) |-> to_int16(buffer[i])]

\* Faulty variant of save_wav_buffer_after: scaling in place
\* (buffer *= max_int16), as generate_white_noise does with noise *= amplitude.
save_wav_buffer_inplace(buffer) ==
    [i \in 1..Len(buffer) |-> Rat(buffer[i].n * max_int16, buffer[i].d)]

\* The array the caller's buffer refers to after save_wav: line 363 builds a
\* new array (buffer * max_int16), the argument is not written.
save_wav_buffer_after(buffer) == buffer

\* File names the user may type at the prompt of menu option 4.
FilenameInputs == {"", "/nonexistent/dir/x.wav"}

\* open(filename, 'wb') succeeds for the file in the working directory and
\* raises FileNotFoundError for a path whose directory does not exist.
Writable(filename) == filename = "white_noise.wav"

NoFile ==
    [exists |-> FALSE, size |-> 0, format_tag |-> 0, channels |-> 0,
     rate |-> 0, bit_depth |-> 0, header_bytes |-> 0, data_bytes |-> 0,
     riff_size |-> 0, data_size |-> 0, frames |-> 0, data |-> <<>>]

\* What open(filename, 'wb') leaves before anything is written.
TruncatedFile == [NoFile EXCEPT !.exists = TRUE]

\* Bytes wavfile.write emits before the samples: "RIFF" size "WAVE", "fmt "
\* len fmt-chunk (16 bytes, plus cbSize for non-PCM), a 12-byte fact chunk for
\* non-PCM data, "data" size.  kind is the dtype kind: "i" or "f".
wav_header_bytes(kind) ==
    4 + 4 + 4
    + 4 + 4 + (16 + (IF kind = "f" THEN 2 ELSE 0))
    + (IF kind = "f" THEN 4 + 4 + 4 ELSE 0)
    + 4 + 4

\* scipy.io.wavfile.write(filename, rate, data) for a 1-D array of `frames`
\* items of `itemsize` bytes: the file is opened (and truncated) first; the
\* header is packed with the rate as an unsigned 32-bit field, which raises
\* struct.error for a negative rate; the RIFF size is patched in at the end.
\* `payload` is the sample sequence where the model enumerates it.
wavfile_write(file_before, filename, rate, kind, itemsize, frames, payload) ==
    IF ~Writable(filename)
    THEN [raised |-> "FileNotFoundError", file |-> file_before]
    ELSE IF rate < 0
    THEN [raised |-> "struct.error", file |-> TruncatedFile]
    ELSE [raised |-> "none",
          file |-> [exists |-> TRUE,
                    size |-> wav_header_bytes(kind) + frames * itemsize,
                    format_tag |-> IF kind = "f" THEN 3 ELSE 1,
                    channels |-> 1,
                    rate |-> rate,
                    bit_depth |-> itemsize * 8,
                    header_bytes |-> wav_header_bytes(kind),
                    data_bytes |-> frames * itemsize,
                    riff_size |-> wav_header_bytes(kind) + frames * itemsize - 8,
                    data_size |-> frames * itemsize,
                    frames |-> frames,
                    data |-> payload]]

\* save_wav(buffer, sample_rate, filename): quantize to int16 (2 bytes per
\* sample) and write.
save_wav(file_before, buffer, sample_rate, filename) ==
    LET wav_int16 == quantize(buffer)
        w == wavfile_write(file_before, filename, sample_rate,
                           "i", 2, Len(wav_int16), wav_int16)
    IN  [raised |-> w.raised, file |-> w.file, wav_int16 |-> wav_int16,
         buffer |-> save_wav_buffer_after(buffer)]

----------------------------------------------------------------------------
(* play_audio and plot_signal_and_spectrum *)

\* Faulty variant of play_blocking: sd.play without blocking=True.
play_nonblocking == FALSE

\* sd.play(buffer, samplerate=sample_rate, blocking=True): play waits for the
\* stream to finish before it returns.
play_blocking == TRUE

\* Opening the output stream fails with PortAudioError when there is no
\* output device or the sample rate is not positive.
sd_play(samplerate, device_ok) ==
    IF device_ok /\ samplerate > 0 THEN "none" ELSE "PortAudioError"

NoStream == [active |-> FALSE, pos |-> 0, len |-> 0, block |-> 1]

\* np.fft.rfft raises ValueError for an empty array; otherwise the spectrum
\* has N \div 2 + 1 bins.
plot_signal_and_spectrum(buffer) ==
    IF Len(buffer) = 0
    THEN [raised |-> "ValueError", bins |-> 0]
    ELSE [raised |-> "none", bins |-> Len(buffer) \div 2 + 1]

----------------------------------------------------------------------------
(* State *)

Terminal == "White noise.py"
Script   == "White noise generator.py"

NoCall ==
    [op |-> "none", has_buffer |-> FALSE, buffer |-> <<>>, sample_rate |-> 0,
     gen_sr |-> 0, duration |-> Rat(0, 10), filename |-> "",
     device_ok |-> TRUE, result |-> <<>>, bins |-> 0, raised |-> "none"]

Init ==
    /\ program \in {Terminal, Script}
    /\ pc = "start"
    /\ choice = ""
    /\ current_buffer = None
    /\ current_sr = 48000
    /\ gen_sr = 0
    /\ total_samples = 0
    /\ disk = NoFile
    /\ stream = NoStream
    /\ call = NoCall
    /\ msg = ""
    /\ error = "none"

\* An exception nothing catches ends the process with a traceback.
Crash(exc) ==
    /\ pc' = "crashed"
    /\ error' = exc
    /\ msg' = "traceback"

\* ensure_dependencies(): returns, or calls sys.exit(1) when pip or a package
\* cannot be made available.
ensure_dependencies(available) ==
    IF available
    THEN /\ pc' = "menu"
         /\ msg' = "deps_ok"
    ELSE /\ pc' = "exited"
         /\ msg' = "deps_error"

----------------------------------------------------------------------------
(* White noise.py: main *)

\* main() up to the first menu: the dependency check.
Startup ==
    /\ program = Terminal
    /\ pc = "start"
    /\ \E available \in BOOLEAN : ensure_dependencies(available)
    /\ call' = NoCall
    /\ UNCHANGED <<program, choice, current_buffer, current_sr, gen_sr,
                   total_samples, disk, stream, error>>

\* choice == "1"
Choice1 ==
    /\ program = Terminal
    /\ pc = "menu"
    /\ choice' = "1"
    /\ \E available \in BOOLEAN : ensure_dependencies(available)
    /\ call' = NoCall
    /\ UNCHANGED <<program, current_buffer, current_sr, gen_sr,
                   total_samples, disk, stream, error>>

\* Faulty variant of sr_on_value_error: the try block assigning current_sr
\* directly (current_sr = int(input(...))), so that a later ValueError leaves
\* the new rate with the old buffer.
sr_on_value_error_assigned(cur, dur_p, sr_p) ==
    IF dur_p.ok /\ sr_p.ok THEN sr_p.v ELSE cur

\* current_sr when the except ValueError branch runs `continue`: sr is a
\* local of the try block, current_sr is not assigned.
sr_on_value_error(cur, dur_p, sr_p) == cur

\* choice == "2"
Choice2 ==
    /\ program = Terminal
    /\ pc = "menu"
    /\ choice' = "2"
    /\ \E d_in \in DurInputs, sr_in \in SrInputs, a_in \in AmpInputs :
        LET dur_p == float_(or_default(d_in, "2.0"))
            sr_p  == int_(or_default(sr_in, "48000"))
            amp_p == float_(or_default(a_in, "0.2"))
        IN
        IF ~(dur_p.ok /\ sr_p.ok /\ amp_p.ok)
        THEN \* except ValueError: print, continue
             /\ msg' = "err_params"
             /\ call' = NoCall
             /\ current_sr' = sr_on_value_error(current_sr, dur_p, sr_p)
             /\ UNCHANGED <<pc, current_buffer, gen_sr, error>>
        ELSE
             /\ n_samples(dur_p.v, sr_p.v) <= MaxSamples
             /\ \E z \in [1..n_samples(dur_p.v, sr_p.v) -> NoiseValues] :
                 LET g == generate_white_noise(dur_p.v, sr_p.v, amp_p.v, z)
                 IN  /\ call' = [NoCall EXCEPT
                                   !.op = "generate_white_noise",
                                   !.duration = dur_p.v,
                                   !.sample_rate = sr_p.v,
                                   !.buffer = g.noise,
                                   !.raised = g.raised]
                     /\ IF g.raised # "none"
                        THEN /\ Crash(g.raised)
                             /\ UNCHANGED <<current_buffer, current_sr, gen_sr>>
                        ELSE /\ current_buffer' = Some(g.noise)
                             /\ gen_sr' = sr_p.v
                             /\ current_sr' = sr_p.v
                             /\ msg' = "generated"
                             /\ UNCHANGED <<pc, error>>
    /\ UNCHANGED <<program, total_samples, disk, stream>>

\* Faulty variant of no_buffer: the guard missing.
no_buffer_unchecked(buf) == FALSE

\* `if current_buffer is None`
no_buffer(buf) == ~buf.some

\* The warning branch of choices 3, 4 and 5: print and continue.
WarnNoBuffer ==
    /\ msg' = "warn_no_buffer"
    /\ call' = NoCall
    /\ UNCHANGED <<program, pc, current_buffer, current_sr, gen_sr,
                   total_samples, disk, stream, error>>

\* choice == "3": play_audio(current_buffer, sample_rate=current_sr)
Choice3 ==
    /\ program = Terminal
    /\ pc = "menu"
    /\ choice' = "3"
    /\ IF no_buffer(current_buffer)
       THEN WarnNoBuffer
       ELSE \E device_ok \in BOOLEAN :
            LET raised == sd_play(current_sr, device_ok)
            IN  /\ call' = [NoCall EXCEPT
                              !.op = "play_audio",
                              !.has_buffer = current_buffer.some,
                              !.buffer = current_buffer.data,
                              !.sample_rate = current_sr,
                              !.gen_sr = gen_sr,
                              !.device_ok = device_ok,
                              !.raised = raised]
                /\ IF raised # "none"
                   THEN /\ Crash(raised)
                        /\ UNCHANGED stream
                   ELSE /\ stream' = [active |-> TRUE, pos |-> 0,
                                      len |-> Len(current_buffer.data),
                                      block |-> 1]
                        /\ IF play_blocking
                           THEN /\ pc' = "playing"
                                /\ msg' = "play_info"
                           ELSE /\ pc' = "menu"
                                /\ msg' = "play_done"
                        /\ UNCHANGED error
                /\ UNCHANGED <<program, current_buffer, current_sr, gen_sr,
                               total_samples, disk>>

\* The output device consumes the stream block by block and ends it after the
\* last frame.
DeviceStep ==
    /\ stream.active
    /\ stream' =
         IF stream.pos < stream.len
         THEN [stream EXCEPT !.pos =
                 IF stream.pos + stream.block > stream.len
                 THEN stream.len ELSE stream.pos + stream.block]
         ELSE [stream EXCEPT !.active = FALSE]
    /\ UNCHANGED <<program, pc, choice, current_buffer, current_sr, gen_sr,
                   total_samples, disk, call, msg, error>>

\* sd.play(..., blocking=True) returns once the stream has ended; play_audio
\* prints "[OK] Riproduzione terminata." and main goes back to the menu.
PlayReturn ==
    /\ program = Terminal
    /\ pc = "playing"
    /\ ~stream.active
    /\ pc' = "menu"
    /\ msg' = "play_done"
    /\ call' = NoCall
    /\ UNCHANGED <<program, choice, current_buffer, current_sr, gen_sr,
                   total_samples, disk, stream, error>>

\* choice == "4": save_wav(current_buffer, sample_rate=current_sr, filename)
Choice4 ==
    /\ program = Terminal
    /\ pc = "menu"
    /\ choice' = "4"
    /\ IF no_buffer(current_buffer)
       THEN WarnNoBuffer
       ELSE \E f_in \in FilenameInputs :
            LET filename == or_default(f_in, "white_noise.wav")
                s == save_wav(disk, current_buffer.data, current_sr, filename)
            IN  /\ call' = [NoCall EXCEPT
                              !.op = "save_wav",
                              !.has_buffer = current_buffer.some,
                              !.buffer = current_buffer.data,
                              !.sample_rate = current_sr,
                              !.gen_sr = gen_sr,
                              !.filename = filename,
                              !.result = s.wav_int16,
                              !.raised = s.raised]
                /\ disk' = s.file
                /\ current_buffer' = [current_buffer EXCEPT !.data = s.buffer]
                /\ IF s.raised # "none"
                   THEN Crash(s.raised)
                   ELSE /\ msg' = "saved"
                        /\ UNCHANGED <<pc, error>>
                /\ UNCHANGED <<program, current_sr, gen_sr, total_samples,
                               stream>>

\* choice == "5": plot_signal_and_spectrum(current_buffer, sample_rate=current_sr)
Choice5 ==
    /\ program = Terminal
    /\ pc = "menu"
    /\ choice' = "5"
    /\ IF no_buffer(current_buffer)
       THEN WarnNoBuffer
       ELSE LET r == plot_signal_and_spectrum(current_buffer.data)
            IN  /\ call' = [NoCall EXCEPT
                              !.op = "plot_signal_and_spectrum",
                              !.has_buffer = current_buffer.some,
                              !.buffer = current_buffer.data,
                              !.sample_rate = current_sr,
                              !.gen_sr = gen_sr,
                              !.bins = r.bins,
                              !.raised = r.raised]
                /\ IF r.raised # "none"
                   THEN Crash(r.raised)
                   ELSE /\ msg' = "plotted"
                        /\ UNCHANGED <<pc, error>>
                /\ UNCHANGED <<program, current_buffer, current_sr, gen_sr,
                               total_samples, disk, stream>>

\* choice == "6": break
Choice6 ==
    /\ program = Terminal
    /\ pc = "menu"
    /\ choice' = "6"
    /\ pc' = "exited"
    /\ msg' = "bye"
    /\ call' = NoCall
    /\ UNCHANGED <<program, current_buffer, current_sr, gen_sr,
                   total_samples, disk, stream, error>>

\* else: invalid choice
ChoiceInvalid ==
    /\ program = Terminal
    /\ pc = "menu"
    /\ choice' \in {"", "7"}
    /\ msg' = "err_choice"
    /\ call' = NoCall
    /\ UNCHANGED <<program, pc, current_buffer, current_sr, gen_sr,
                   total_samples, disk, stream, error>>

----------------------------------------------------------------------------
(* White noise generator.py: the straight-line script.  Its 5,172,000        *)
(* samples are not enumerated: white_noise is represented by its length.    *)

duration == 120
sampling_rate == 43100

\* total_samples = duration * sampling_rate; white_noise is drawn and its
\* first 1000 samples are plotted.
ScriptGenerate ==
    /\ program = Script
    /\ pc = "start"
    /\ total_samples' = duration * sampling_rate
    /\ pc' = "generated"
    /\ msg' = "plotted"
    /\ call' = NoCall
    /\ UNCHANGED <<program, choice, current_buffer, current_sr, gen_sr,
                   disk, stream, error>>

\* write('white_noise.wav', sampling_rate, white_noise.astype(np.float32)):
\* float32 data, 4 bytes per sample.
ScriptWrite ==
    /\ program = Script
    /\ pc = "generated"
    /\ LET w == wavfile_write(disk, "white_noise.wav", sampling_rate,
                              "f", 4, total_samples, <<>>)
       IN  /\ call' = [NoCall EXCEPT
                         !.op = "wavfile.write",
                         !.has_buffer = TRUE,
                         !.sample_rate = sampling_rate,
                         !.gen_sr = sampling_rate,
                         !.filename = "white_noise.wav",
                         !.raised = w.raised]
           /\ disk' = w.file
           /\ IF w.raised # "none"
              THEN Crash(w.raised)
              ELSE /\ pc' = "written"
                   /\ msg' = "plotted"
                   /\ UNCHANGED error
    /\ UNCHANGED <<program, choice, current_buffer, current_sr, gen_sr,
                   total_samples, stream>>

\* sd.play(white_noise, samplerate=sampling_rate): starts the stream and
\* returns; the next statement is sd.wait().
ScriptPlay ==
    /\ program = Script
    /\ pc = "written"
    /\ \E device_ok \in BOOLEAN :
        LET raised == sd_play(sampling_rate, device_ok)
        IN  /\ call' = [NoCall EXCEPT
                          !.op = "sd.play",
                          !.has_buffer = TRUE,
                          !.sample_rate = sampling_rate,
                          !.gen_sr = sampling_rate,
                          !.device_ok = device_ok,
                          !.raised = raised]
            /\ IF raised # "none"
               THEN /\ Crash(raised)
                    /\ UNCHANGED stream
               ELSE /\ stream' = [active |-> TRUE, pos |-> 0,
                                  len |-> total_samples,
                                  block |-> total_samples \div 2]
                    /\ pc' = "sd_wait"
                    /\ msg' = "play_info"
                    /\ UNCHANGED error
    /\ UNCHANGED <<program, choice, current_buffer, current_sr, gen_sr,
                   total_samples, disk>>

\* sd.wait(): returns when the stream has ended.
ScriptWait ==
    /\ program = Script
    /\ pc = "sd_wait"
    /\ ~stream.active
    /\ pc' = "played"
    /\ call' = NoCall
    /\ UNCHANGED <<program, choice, current_buffer, current_sr, gen_sr,
                   total_samples, disk, stream, msg, error>>

\* welch(white_noise, fs=sampling_rate, nperseg=1024), the plot, and the end
\* of the script.
ScriptWelch ==
    /\ program = Script
    /\ pc = "played"
    /\ call' = [NoCall EXCEPT
                  !.op = "welch",
                  !.has_buffer = TRUE,
                  !.sample_rate = sampling_rate,
                  !.gen_sr = sampling_rate,
                  !.bins = 1024 \div 2 + 1]
    /\ pc' = "exited"
    /\ msg' = "plotted"
    /\ UNCHANGED <<program, choice, current_buffer, current_sr, gen_sr,
                   total_samples, disk, stream, error>>

----------------------------------------------------------------------------

Next ==
    \/ Startup
    \/ Choice1
    \/ Choice2
    \/ Choice3
    \/ DeviceStep
    \/ PlayReturn
    \/ Choice4
    \/ Choice5
    \/ Choice6
    \/ ChoiceInvalid
    \/ ScriptGenerate
    \/ ScriptWrite
    \/ ScriptPlay
    \/ ScriptWait
    \/ ScriptWelch

Spec == Init /\ [][Next]_vars

----------------------------------------------------------------------------
(* Properties *)

\* The three consumers main dispatches to.
Consumers == {"play_audio", "save_wav", "plot_signal_and_spectrum"}

\* C1: every generate call with duration_seconds <= 0 or sample_rate <= 0
\* fails with an error reported to the caller; it never returns a buffer.
C1_InvalidParametersRejected ==
    (call.op = "generate_white_noise"
        /\ (call.duration.n <= 0 \/ call.sample_rate <= 0))
    => call.raised # "none"

\* C2: for duration > 0 and sample_rate > 0 generation succeeds, the buffer
\* returned has exactly floor(duration * sample_rate) samples and it is the
\* buffer the Controller holds afterwards; 1.0 s at 48000 Hz is 48000 samples.
C2_BufferLengthIsFloor ==
    /\ n_samples(Rat(10, 10), 48000) = 48000
    /\ (call.op = "generate_white_noise"
            /\ call.duration.n > 0 /\ call.sample_rate > 0)
       => /\ call.raised = "none"
          /\ Len(call.buffer)
               = Floor(call.duration.n * call.sample_rate, call.duration.d)
          /\ current_buffer = Some(call.buffer)

\* C2 witness: 0.5 s at 3 Hz (1.5 samples) generated a 1-sample buffer.
C2_Witness ==
    /\ call.op = "generate_white_noise"
    /\ call.duration = Rat(5, 10)
    /\ call.sample_rate = 3
    /\ current_buffer.some
    /\ Len(current_buffer.data) = 1

\* C3: every sample x of the saved buffer is quantized to
\* clamp(round(x * 32767), -32768, 32767).
C3_QuantizeRoundsAndSaturates ==
    call.op = "save_wav"
    => /\ Len(call.result) = Len(call.buffer)
       /\ \A i \in 1..Len(call.buffer) :
            call.result[i]
              = Clamp(RoundNearest(call.buffer[i].n * 32767, call.buffer[i].d),
                      -32768, 32767)

\* C4: every WAV file a program writes for a buffer of N samples is mono
\* 16-bit PCM, 44 header bytes followed by 2*N data bytes, and the sizes in
\* the header are those of the file.
C4_WavFileIsPcm16 ==
    (call.op \in {"save_wav", "wavfile.write"} /\ call.raised = "none")
    => LET N == IF call.op = "save_wav" THEN Len(call.buffer)
                ELSE total_samples
       IN  /\ disk.exists
           /\ disk.format_tag = 1
           /\ disk.channels = 1
           /\ disk.bit_depth = 16
           /\ disk.header_bytes = 44
           /\ disk.data_bytes = 2 * N
           /\ disk.size = 44 + 2 * N
           /\ disk.data_size = disk.data_bytes
           /\ disk.riff_size = disk.size - 8

\* The Controller exists, with its buffer slot, while main is running.
Running == pc \notin {"crashed", "exited"}

\* C5: a save to a path that cannot be written raises an error to the caller
\* and leaves prior state untouched: the file on disk is as before (none is
\* created, an earlier one is kept) and the Controller still holds the same
\* current buffer and sample rate.
C5_FailedSaveLeavesStateUntouched ==
    [][(call'.op = "save_wav" /\ ~Writable(call'.filename))
       => /\ call'.raised # "none"
          /\ disk' = disk
          /\ Running'
          /\ current_buffer' = current_buffer
          /\ current_sr' = current_sr]_vars

\* The part of C5 the program does keep: the failed open raises
\* FileNotFoundError and the file on disk and the buffer object are as before.
FailedSaveLeavesDiskUntouched ==
    [][(call'.op = "save_wav" /\ ~Writable(call'.filename))
       => /\ call'.raised = "FileNotFoundError"
          /\ error' = "FileNotFoundError"
          /\ disk' = disk
          /\ current_buffer' = current_buffer]_vars

\* C6: when no output device is available, the failed play leaves the
\* Controller running at the menu with the same buffer and sample rate.
C6_NoDeviceKeepsControllerRunning ==
    (call.op = "play_audio" /\ ~call.device_ok)
    => /\ call.raised = "PortAudioError"
       /\ pc = "menu"
       /\ error = "none"
       /\ current_buffer = Some(call.buffer)
       /\ current_sr = call.sample_rate

\* C7: while the stream is active the program is blocked inside play (or
\* sd.wait) and, once play has returned ("playback finished" printed, or the
\* script past sd.wait), the stream has ended after its last frame.
C7_PlaybackIsSynchronous ==
    /\ stream.active => pc \in {"playing", "sd_wait"}
    /\ (msg = "play_done" \/ pc = "played")
       => (~stream.active /\ stream.pos = stream.len)

\* C7 witness: playback of a 2-sample buffer has finished and main is back at
\* the menu.
C7_Witness ==
    /\ program = Terminal
    /\ pc = "menu"
    /\ msg = "play_done"
    /\ stream.len = 2
    /\ stream.pos = 2
    /\ ~stream.active

\* C8: whenever the Controller holds a buffer, its current sample rate, and
\* the rate passed to play, save and analyze, is the rate that buffer was
\* generated with.
C8_SampleRateMatchesBuffer ==
    /\ (program = Terminal /\ current_buffer.some) => current_sr = gen_sr
    /\ call.op \in Consumers => call.sample_rate = call.gen_sr

\* C8 witness: a buffer generated at 2 Hz is held after a later generation
\* attempt was rejected for invalid input.
C8_Witness ==
    /\ current_buffer.some
    /\ Len(current_buffer.data) = 2
    /\ gen_sr = 2
    /\ current_sr = 2
    /\ choice = "2"
    /\ msg = "err_params"

\* C9: the current buffer changes only by a successful generation; play,
\* save and analyze leave every sample and the length as they were.
C9_BufferImmutable ==
    [][current_buffer' # current_buffer
       => (call'.op = "generate_white_noise" /\ call'.raised = "none")]_vars

\* C9 witness: a save of a 2-sample buffer succeeded and the buffer held is
\* still the one that was passed in.
C9_Witness ==
    /\ call.op = "save_wav"
    /\ call.raised = "none"
    /\ Len(call.buffer) = 2
    /\ current_buffer = Some(call.buffer)
    /\ disk.data = quantize(call.buffer)

\* C10: no consumer is invoked without a buffer; choosing 3, 4 or 5 while no
\* buffer exists only prints the warning: no call, no file, no stream, the
\* sample rate still the default, and main back at the menu.
C10_NoConsumerWithoutBuffer ==
    /\ call.op \in Consumers => call.has_buffer
    /\ (program = Terminal /\ ~current_buffer.some)
       => /\ ~disk.exists
          /\ ~stream.active
          /\ current_sr = 48000
          /\ choice \in {"3", "4", "5"}
             => (msg = "warn_no_buffer" /\ pc = "menu" /\ call = NoCall)

\* C10 witness: save was chosen with no buffer and only the warning came.
C10_Witness ==
    /\ choice = "4"
    /\ msg = "warn_no_buffer"
    /\ ~current_buffer.some
    /\ ~disk.exists
    /\ pc = "menu"

====
